---- MODULE Spec2Model ----
(***************************************************************************)
(* Discrete particle swarm optimisation over permutations                  *)
(* (src/particle_swarm_optimization.py).                                   *)
(*                                                                         *)
(* Python lists are TLA+ sequences; a transposition (i, j) keeps the       *)
(* 0-based indices of the code, so list[i] of the code is list[i + 1]      *)
(* here.  Sequence objects live in `heap`: a position held by a particle   *)
(* or by the coordinator is a reference (an index of heap), so that        *)
(* `best = x` shares the object as it does in the code.  Floats are        *)
(* fixed-point numbers in units of 1/Unit.                                 *)
(***************************************************************************)
EXTENDS Integers, Sequences, FiniteSets, TLC

\* ------------------------------------------------------------- bounds
MaxN == 2
MaxSize == 3
MaxParticles == 2
MaxValue == 2
MaxGen == 2
MaxLen == 2
MaxBoard == 4
MaxVelocity == 2

\* ---------------------------------------------------------- constants
Unit == 100
None == 0
Inf == MaxValue + 1
Values == 0..MaxValue
inertia_weight == 70
cognitive_parameter == 80
social_parameter == 90
\* random.uniform(0.0, 1.0): a float of [0, 1]
Uniform01 == {0, Unit \div 2, Unit}

VARIABLES
  n, heap, particles, best_global, best_global_value, best_iteration,
  best_iteration_value, i, rp, rg,
  \* the last call and what it was given / what it returned
  lastOp, value, ret, evaluated, lastI,
  \* history of the run
  total, gen, minAll, minDone, roundMin, reported, bestAt, iterAt, globalAt,
  \* the algebra of Sequence and PermutationList, run on its own
  pc, a, b, other_list, v, sum, pl, factor, out, recorded, operand,
  \* cost_function(x), run on its own: its argument and its result
  board, num_invalid_restrictions,
  \* Particle.update, run on its own: the type of the object self.v, the
  \* arguments of the last call and the error it raised
  vtype, args, raised

coord == <<n, heap, particles, best_global, best_global_value, best_iteration,
           best_iteration_value, i>>
draws == <<rp, rg>>
call == <<lastOp, value, ret, evaluated, lastI>>
hist == <<total, gen, minAll, minDone, roundMin, reported, bestAt, iterAt,
          globalAt>>
alg == <<pc, a, b, other_list, v, sum, pl, factor, out, recorded, operand>>
cst == <<board, num_invalid_restrictions>>
upd == <<vtype, args, raised>>
aside == <<cst, upd>>
vars == <<coord, draws, call, hist, alg, aside>>

Min(x, y) == IF x < y THEN x ELSE y

\* ------------------------------------------------------------ Sequence
\* Sequence.__init__: list(range(1, n + 1)) shuffled
ShuffledNoCheck(m) == [1..m -> 1..m]
Shuffled(m) == {s \in [1..m -> 1..m] : \A p, q \in 1..m : p # q => s[p] # s[q]}

IsPermutation(s, m) ==
  /\ Len(s) = m
  /\ \A k \in 1..m : Cardinality({p \in 1..m : s[p] = k}) = 1

\* the three assignments of Sequence.__add__'s loop body
Swap(list, p, q) == [list EXCEPT ![q + 1] = list[p + 1], ![p + 1] = list[q + 1]]

\* Sequence.__add__ on a PermutationList whose keys() are `keys`
RECURSIVE ApplyReversed(_, _)
ApplyReversed(list, keys) ==
  IF keys = <<>> THEN list
  ELSE Swap(ApplyReversed(list, Tail(keys)), Head(keys)[1], Head(keys)[2])
RECURSIVE Apply(_, _)
Apply(list, keys) ==
  IF keys = <<>> THEN list
  ELSE Apply(Swap(list, Head(keys)[1], Head(keys)[2]), Tail(keys))

\* the objects a Sequence can be added to, by type
PermutationListObj(keys) == [type |-> "PermutationList", keys |-> keys]
ListObj(keys) == [type |-> "list", keys |-> keys]
NoneObj == [type |-> "NoneType", keys |-> <<>>]
IntObj == [type |-> "int", keys |-> <<>>]

\* Sequence.__add__: the new Sequence's list, or the TypeError
SeqAddDuck(list, permutation_list) ==
  IF permutation_list.type \in {"PermutationList", "list"}
  THEN [err |-> "", val |-> Apply(list, permutation_list.keys)]
  ELSE [err |-> "TypeError", val |-> <<>>]
SeqAdd(list, permutation_list) ==
  IF permutation_list.type = "PermutationList"
  THEN [err |-> "", val |-> Apply(list, permutation_list.keys)]
  ELSE [err |-> "TypeError", val |-> <<>>]

\* list.copy() (Sequence.__copy__, and other.list.copy() of __sub__): the
\* original list once the copy has been written to
AfterNoCopy(original, written) == written
AfterCopy(original, written) == original

\* ------------------------------------------------------ the coordinator
NumParticles == Cardinality(DOMAIN particles)
Indices == DOMAIN particles

\* Particle.__init__ for the particle whose Sequence is heap[ref]
NewParticle(ref) == [x |-> ref, v |-> <<>>, best |-> ref, best_value |-> Inf]

\* notify_evaluation, lines 208-210
RecordPersonalTie(p, val) ==
  IF val <= p.best_value THEN [p EXCEPT !.best = p.x, !.best_value = val] ELSE p
RecordPersonal(p, val) ==
  IF val < p.best_value THEN [p EXCEPT !.best = p.x, !.best_value = val] ELSE p

\* notify_evaluation, lines 211-213: <<best_iteration, best_iteration_value>>
RecordIterationLast(bi, biv, x, val) == <<x, val>>
RecordIterationValueOnly(bi, biv, x, val) ==
  IF val < biv THEN <<bi, val>> ELSE <<bi, biv>>
RecordIteration(bi, biv, x, val) ==
  IF val < biv THEN <<x, val>> ELSE <<bi, biv>>

\* notify_evaluation, lines 217-219: <<best_global, best_global_value>>
CommitGlobalFirst(bg, bgv, bi, biv) ==
  IF bg = None THEN <<bi, biv>> ELSE <<bg, bgv>>
CommitGlobal(bg, bgv, bi, biv) ==
  IF biv < bgv THEN <<bi, biv>> ELSE <<bg, bgv>>

\* notify_evaluation, lines 215-216 and 221-222: the cursor after the call
NextCursorNoWrap(cur, np) == cur + 1
NextCursorStuck(cur, np) == IF cur = np - 1 THEN 0 ELSE cur
NextCursor(cur, np) == IF cur = np - 1 THEN 0 ELSE cur + 1

\* advance_generation: every particle, in order, gets the new Sequence
\* x + v; the k-th new object is heap[Len(h) + k + 1].  rp and rg are drawn
\* for every particle and used by none; the variables rp, rg hold the
\* draws of the loop's last iteration.
AdvancedHeap(h, ps) ==
  h \o [k \in 1..Cardinality(DOMAIN ps) |-> Apply(h[ps[k - 1].x], ps[k - 1].v)]
AdvancedParticlesToBest(h, ps) ==
  [k \in DOMAIN ps |->
     [ps[k] EXCEPT !.x = Len(h) + k + 1,
                   !.v = IF h[ps[0].best] = h[ps[k].x] THEN <<>>
                         ELSE <<<<0, Len(h[ps[k].x]) - 1>>>>]]
AdvancedParticles(h, ps) ==
  [k \in DOMAIN ps |-> [ps[k] EXCEPT !.x = Len(h) + k + 1]]

AlgIdle ==
  /\ pc = "idle" /\ a = <<>> /\ b = <<>> /\ other_list = <<>> /\ v = <<>>
  /\ sum = <<>> /\ pl = <<>> /\ factor = [type |-> "int", val |-> 0]
  /\ out = [err |-> "", val |-> <<>>] /\ recorded = <<>>
  /\ operand = [type |-> "NoneType", keys |-> <<>>]

CostIdle == board = <<>> /\ num_invalid_restrictions = 0

NoArgs == [w |-> [type |-> "int", val |-> 0], phip |-> 0, rp |-> 0, phig |-> 0, rg |-> 0, best_global |-> None]
UpdateIdle == vtype = "PermutationList" /\ args = NoArgs /\ raised = ""

\* ParticleSwarmOptimization.__init__
Init ==
  /\ n \in 1..MaxN
  /\ \E np \in 1..MaxParticles : heap \in [1..np -> Shuffled(n)]
  /\ particles = [k \in 0..(Len(heap) - 1) |-> NewParticle(k + 1)]
  /\ best_global = None /\ best_global_value = Inf
  /\ best_iteration = None /\ best_iteration_value = Inf
  /\ i = 0
  /\ rp = 0 /\ rg = 0
  /\ lastOp = "init" /\ value = Inf /\ ret = None /\ evaluated = None /\ lastI = 0
  /\ total = 0 /\ gen = 0 /\ minAll = Inf /\ minDone = Inf /\ roundMin = Inf
  /\ reported = {}
  /\ bestAt = [k \in DOMAIN particles |-> <<>>] /\ iterAt = <<>> /\ globalAt = <<>>
  /\ AlgIdle /\ CostIdle /\ UpdateIdle

GetPositionToEvaluateAdvancing ==
  /\ ret' = particles[i].x
  /\ lastOp' = "get"
  /\ i' = NextCursor(i, NumParticles)
  /\ UNCHANGED <<n, heap, particles, best_global, best_global_value,
                 best_iteration, best_iteration_value, draws, value, evaluated,
                 lastI, hist, alg, aside>>
\* get_position_to_evaluate
GetPositionToEvaluate ==
  /\ ret' = particles[i].x
  /\ lastOp' = "get"
  /\ UNCHANGED <<coord, draws, value, evaluated, lastI, hist, alg, aside>>

\* notify_evaluation(val)
NotifyEvaluation(val) ==
  /\ gen < MaxGen
  /\ LET x == particles[i].x
         ps == [particles EXCEPT ![i] = RecordPersonal(particles[i], val)]
         it == RecordIteration(best_iteration, best_iteration_value, x, val)
         last == (i = NumParticles - 1)
         gl == CommitGlobal(best_global, best_global_value, it[1], it[2])
     IN /\ best_iteration' = it[1]
        /\ best_iteration_value' = it[2]
        /\ i' = NextCursor(i, NumParticles)
        /\ IF last
           THEN /\ best_global' = gl[1]
                /\ best_global_value' = gl[2]
                /\ rp' \in Uniform01 /\ rg' \in Uniform01
                /\ heap' = AdvancedHeap(heap, ps)
                /\ particles' = AdvancedParticles(heap, ps)
                /\ gen' = gen + 1
                /\ minDone' = Min(minAll, val)
                /\ roundMin' = Inf
           ELSE /\ particles' = ps
                /\ roundMin' = Min(roundMin, val)
                /\ UNCHANGED <<best_global, best_global_value, rp, rg, heap, gen,
                               minDone>>
        /\ lastOp' = "notify" /\ value' = val /\ evaluated' = x /\ lastI' = i
        /\ total' = total + 1
        /\ minAll' = Min(minAll, val)
        /\ reported' = reported \cup {<<heap[x], val>>}
        /\ bestAt' = IF ps[i].best_value < particles[i].best_value
                      THEN [bestAt EXCEPT ![i] = heap[x]] ELSE bestAt
        /\ iterAt' = IF it[2] < best_iteration_value THEN heap[x] ELSE iterAt
        /\ globalAt' = IF last /\ gl[2] < best_global_value
                       THEN (IF it[2] < best_iteration_value THEN heap[x] ELSE iterAt)
                       ELSE globalAt
        /\ UNCHANGED <<n, ret, alg, aside>>

Next ==
  \/ GetPositionToEvaluate
  \/ \E val \in Values : NotifyEvaluation(val)

Spec == Init /\ [][Next]_vars

\* ----------------------------------------------- PermutationList algebra
Max(x, y) == IF x > y THEN x ELSE y

\* PermutationList.add: OrderedDict.update({permutation: None}); a key
\* already present keeps its place
AddAppend(keys, permutation) == Append(keys, permutation)
Add(keys, permutation) ==
  IF \E k \in 1..Len(keys) : keys[k] = permutation
  THEN keys ELSE Append(keys, permutation)

\* the list slice keys[0:stop] of Python
SliceTo(keys, stop) ==
  SubSeq(keys, 1, IF stop < 0 THEN Max(Len(keys) + stop, 0)
                  ELSE Min(stop, Len(keys)))

\* round(x / d) of Python for x >= 0: halves go to the even neighbour
Round(x, d) ==
  LET q == x \div d
      r == x % d
  IN IF 2 * r < d THEN q
     ELSE IF 2 * r > d THEN q + 1
     ELSE IF q % 2 = 0 THEN q ELSE q + 1

IntFactor(k) == [type |-> "int", val |-> k]
FloatFactor(f) == [type |-> "float", val |-> f]
Returned(list) == [err |-> "", val |-> list]
Raised(e) == [err |-> e, val |-> <<>>]

\* PermutationList.__rmul__ (and __mul__, which calls it)
RMulClamp(keys, f) ==
  IF f.type = "int" THEN Returned(SliceTo(keys, f.val))
  ELSE IF f.type = "float"
       THEN Returned(SliceTo(keys, Round(Max(0, Min(Unit, f.val)) * Len(keys), Unit)))
       ELSE Raised("TypeError")
RMulSuffix(keys, f) ==
  IF f.type = "int" THEN Returned(SubSeq(keys, Len(keys) - Len(SliceTo(keys, f.val)) + 1, Len(keys)))
  ELSE IF f.type = "float"
       THEN IF f.val < 0 \/ f.val > Unit
            THEN Raised("ValueError")
            ELSE Returned(SliceTo(keys, Round(f.val * Len(keys), Unit)))
       ELSE Raised("TypeError")
RMul(keys, f) ==
  IF f.type = "int" THEN Returned(SliceTo(keys, f.val))
  ELSE IF f.type = "float"
       THEN IF f.val < 0 \/ f.val > Unit
            THEN Raised("ValueError")
            ELSE Returned(SliceTo(keys, Round(f.val * Len(keys), Unit)))
       ELSE Raised("TypeError")

\* Sequence.__sub__, lines 38-44: the index the inner loop stops at, or
\* None + the length when it runs to its end
FoundAtFromStart(self_list, other, idx) ==
  LET js == {j \in 0..(Len(self_list) - 1) : other[j + 1] = self_list[idx + 1]}
  IN IF js = {} THEN Len(self_list)
     ELSE CHOOSE j \in js : \A k \in js : j <= k
FoundAt(self_list, other, idx) ==
  LET js == {j \in (idx + 1)..(Len(self_list) - 1) : other[j + 1] = self_list[idx + 1]}
  IN IF js = {} THEN Len(self_list)
     ELSE CHOOSE j \in js : \A k \in js : j <= k
\* lines 42-43
SubSwapNoStore(other, idx, j, searching) ==
  [other EXCEPT ![j + 1] = other[idx + 1]]
SubSwap(other, idx, j, searching) ==
  [other EXCEPT ![j + 1] = other[idx + 1], ![idx + 1] = searching]

\* Sequence.__sub__ as a whole: every PermutationList (its keys) that
\* self - other can return, over the indices random.randrange can give
RECURSIVE DiffsFrom(_, _, _)
DiffsFrom(self_list, other, keys) ==
  IF self_list = other THEN {keys}
  ELSE UNION {
    LET j == FoundAt(self_list, other, idx)
    IN DiffsFrom(self_list, SubSwap(other, idx, j, self_list[idx + 1]),
                 Add(keys, <<idx, j>>)) :
    idx \in {k \in 0..(Len(self_list) - 1) :
               /\ self_list[k + 1] # other[k + 1]
               /\ FoundAt(self_list, other, k) < Len(self_list)}}
Diffs(self_list, other) == DiffsFrom(self_list, other, <<>>)

\* the product of two floats
Times(x, y) == (x * y) \div Unit

Factors ==
  {IntFactor(k) : k \in (0 - 1)..(MaxLen + 1)} \cup
  {FloatFactor(f) : f \in {0 - Unit \div 2, 0, Unit \div 4, Unit \div 2, Unit, Unit + Unit \div 2}} \cup
  {[type |-> "str", val |-> 0]}

CoordIdle ==
  /\ n = 0 /\ heap = <<>> /\ particles = <<>>
  /\ best_global = None /\ best_global_value = Inf
  /\ best_iteration = None /\ best_iteration_value = Inf
  /\ i = 0 /\ rp = 0 /\ rg = 0
  /\ lastOp = "init" /\ value = Inf /\ ret = None /\ evaluated = None /\ lastI = 0
  /\ total = 0 /\ gen = 0 /\ minAll = Inf /\ minDone = Inf /\ roundMin = Inf
  /\ reported = {} /\ bestAt = <<>> /\ iterAt = <<>> /\ globalAt = <<>>

\* two Sequence objects of one length
InitAlg ==
  /\ CoordIdle /\ CostIdle /\ UpdateIdle
  /\ \E m \in 1..MaxSize : a \in Shuffled(m) /\ b \in Shuffled(m)
  /\ pc = "start" /\ other_list = <<>> /\ v = <<>> /\ sum = <<>>
  /\ pl = <<>> /\ factor = IntFactor(0) /\ out = Returned(<<>>)
  /\ recorded = <<>> /\ operand = NoneObj

\* a - b, lines 33-34
SubCall ==
  /\ pc = "start"
  /\ v' = <<>> /\ other_list' = b /\ recorded' = <<>>
  /\ b' = AfterCopy(b, other_list')
  /\ pc' = "sub"
  /\ UNCHANGED <<coord, draws, call, hist, aside, a, sum, pl, factor, out, operand>>

\* a - b, one pass of the while loop with random.randrange giving idx
SubLoop(idx) ==
  /\ pc = "sub" /\ a # other_list
  /\ LET j == FoundAt(a, other_list, idx)
     IN IF a[idx + 1] # other_list[idx + 1] /\ j < Len(a)
        THEN /\ v' = Add(v, <<idx, j>>)
             /\ recorded' = Append(recorded, <<idx, j>>)
             /\ other_list' = SubSwap(other_list, idx, j, a[idx + 1])
             /\ b' = AfterCopy(b, other_list')
        ELSE UNCHANGED <<v, recorded, other_list, b>>
  /\ UNCHANGED <<coord, draws, call, hist, aside, pc, a, sum, pl, factor, out, operand>>

\* a - b, line 45
SubReturn ==
  /\ pc = "sub" /\ a = other_list
  /\ pc' = "diffed"
  /\ UNCHANGED <<coord, draws, call, hist, aside, a, b, other_list, v, sum, pl, factor, out, recorded, operand>>

\* b + (a - b)
AddCall ==
  /\ pc = "diffed"
  /\ operand' = PermutationListObj(v)
  /\ out' = SeqAdd(b, operand')
  /\ sum' = out'.val
  /\ b' = AfterCopy(b, sum')
  /\ pc' = "added"
  /\ UNCHANGED <<coord, draws, call, hist, aside, a, other_list, v, pl, factor, recorded>>

\* b + something that is no PermutationList: the list a PermutationList
\* scales to, None, an int
AddOther(obj) ==
  /\ pc = "diffed"
  /\ operand' = obj
  /\ out' = SeqAdd(b, obj)
  /\ IF out'.err = ""
     THEN sum' = out'.val /\ b' = AfterCopy(b, sum')
     ELSE UNCHANGED <<sum, b>>
  /\ pc' = "refused"
  /\ UNCHANGED <<coord, draws, call, hist, aside, a, other_list, v, pl, factor, recorded>>

\* pl.add((p, q))
PlAdd(p, q) ==
  /\ pc \in {"pl", "scaled"} /\ Len(pl) < MaxLen
  /\ pl' = Add(pl, <<p, q>>)
  /\ pc' = "pl"
  /\ UNCHANGED <<coord, draws, call, hist, aside, a, b, other_list, v, sum, factor, out, recorded, operand>>

\* f * pl, pl * f
PlMul(f) ==
  /\ pc \in {"pl", "scaled"}
  /\ factor' = f
  /\ out' = RMul(pl, f)
  /\ pc' = "scaled"
  /\ UNCHANGED <<coord, draws, call, hist, aside, a, b, other_list, v, sum, pl, recorded, operand>>

NextAlg ==
  \/ SubCall
  \/ \E idx \in 0..(Len(a) - 1) : SubLoop(idx)
  \/ SubReturn
  \/ AddCall
  \/ \E obj \in {ListObj(RMul(v, FloatFactor(Unit)).val), NoneObj, IntObj} : AddOther(obj)

SpecAlg == InitAlg /\ [][NextAlg]_vars

\* the calls run to their end: the interpreter keeps executing, and
\* random.randrange gives every index again and again
SpecAlgFair == InitAlg /\ [][NextAlg]_vars /\ WF_vars(NextAlg)

\* ------------------------------------------------------- cost_function
Abs(z) == IF z < 0 THEN 0 - z ELSE z

\* cost_function(x): the ordered pairs i != j counted by the two loops,
\* halved
CostFunctionNoHalf(x) ==
  Cardinality({pq \in (0..(Len(x) - 1)) \X (0..(Len(x) - 1)) :
                 /\ pq[1] # pq[2]
                 /\ Abs(x[pq[1] + 1] - x[pq[2] + 1]) = Abs(pq[1] - pq[2])})
CostFunction(x) ==
  Cardinality({pq \in (0..(Len(x) - 1)) \X (0..(Len(x) - 1)) :
                 /\ pq[1] # pq[2]
                 /\ Abs(x[pq[1] + 1] - x[pq[2] + 1]) = Abs(pq[1] - pq[2])}) \div 2

\* a list of up to MaxBoard queens
InitCost ==
  /\ CoordIdle /\ AlgIdle /\ UpdateIdle
  /\ \E m \in 1..MaxBoard : board \in [1..m -> 1..m]
  /\ num_invalid_restrictions = 0

\* cost_function(board)
CostFunctionCall ==
  /\ pc = "idle"
  /\ num_invalid_restrictions' = CostFunction(board)
  /\ pc' = "cost"
  /\ UNCHANGED <<coord, draws, call, hist, upd, board, a, b, other_list, v, sum,
                 pl, factor, out, recorded, operand>>

NextCost == CostFunctionCall

SpecCost == InitCost /\ [][NextCost]_vars

\* ------------------------------------------------------- Particle.update
\* n * list of Python for an int n: the list repeated
RECURSIVE Repeat(_, _)
Repeat(keys, k) == IF k <= 0 THEN <<>> ELSE keys \o Repeat(keys, k - 1)

\* w * self.v: PermutationList.__rmul__ while self.v is a PermutationList;
\* once self.v is a list, int * list repeats it and float * list is a
\* TypeError
ScaleVelocity(type, keys, w) ==
  IF type = "PermutationList" THEN RMul(keys, w)
  ELSE IF w.type = "int" THEN Returned(Repeat(keys, w.val))
       ELSE Raised("TypeError")

\* c * r * (target - self.x): every outcome over the indices __sub__ can
\* draw; target None has no __sub__ and Sequence has no __rsub__
ScaledDifference(c, r, target, x) ==
  IF target = None THEN {Raised("TypeError")}
  ELSE {RMul(d, FloatFactor(Times(c, r))) : d \in Diffs(heap[target], heap[x])}

\* one Particle(m), heap[1], and one more Sequence(m), heap[2], to pass as
\* best_global
InitUpdate ==
  /\ n \in 1..MaxSize
  /\ heap \in [1..2 -> Shuffled(n)]
  /\ particles = [k \in {0} |-> NewParticle(1)]
  /\ best_global = None /\ best_global_value = Inf
  /\ best_iteration = None /\ best_iteration_value = Inf
  /\ i = 0 /\ rp = 0 /\ rg = 0
  /\ lastOp = "init" /\ value = Inf /\ ret = None /\ evaluated = None /\ lastI = 0
  /\ total = 0 /\ gen = 0 /\ minAll = Inf /\ minDone = Inf /\ roundMin = Inf
  /\ reported = {} /\ bestAt = <<>> /\ iterAt = <<>> /\ globalAt = <<>>
  /\ AlgIdle /\ CostIdle /\ UpdateIdle

\* particles[0].update(w, phip, rp, phig, rg, best_global), lines 117-120:
\* the three terms are evaluated left to right, self.v is assigned their
\* sum (a list), then self.x + self.v is evaluated and assigned
ParticleUpdate(w, phip, r1, phig, r2, bg) ==
  LET self == particles[0]
      t1 == ScaleVelocity(vtype, self.v, w)
  IN /\ Len(self.v) <= MaxVelocity
     /\ args' = [w |-> w, phip |-> phip, rp |-> r1, phig |-> phig, rg |-> r2,
                 best_global |-> bg]
     /\ IF t1.err # ""
        THEN raised' = t1.err /\ UNCHANGED <<heap, particles, vtype>>
        ELSE \E t2 \in ScaledDifference(phip, r1, self.best, self.x) :
          IF t2.err # ""
          THEN raised' = t2.err /\ UNCHANGED <<heap, particles, vtype>>
          ELSE \E t3 \in ScaledDifference(phig, r2, bg, self.x) :
            IF t3.err # ""
            THEN raised' = t3.err /\ UNCHANGED <<heap, particles, vtype>>
            ELSE LET velocity == t1.val \o t2.val \o t3.val
                     moved == SeqAdd(heap[self.x], ListObj(velocity))
                 IN /\ vtype' = "list"
                    /\ raised' = moved.err
                    /\ IF moved.err # ""
                       THEN /\ particles' = [particles EXCEPT ![0].v = velocity]
                            /\ heap' = heap
                       ELSE /\ heap' = Append(heap, moved.val)
                            /\ particles' = [particles EXCEPT
                                 ![0].v = velocity, ![0].x = Len(heap')]
     /\ UNCHANGED <<n, best_global, best_global_value, best_iteration,
                    best_iteration_value, i, draws, call, hist, alg, cst>>

NextUpdate ==
  \E w \in {FloatFactor(inertia_weight), FloatFactor(Unit + Unit \div 2),
            IntFactor(1)},
     r1 \in Uniform01, r2 \in Uniform01,
     phig \in {social_parameter, 2 * Unit},
     bg \in {None, 2} :
    ParticleUpdate(w, cognitive_parameter, r1, phig, r2, bg)

SpecUpdate == InitUpdate /\ [][NextUpdate]_vars

\* an empty PermutationList, for transpositions of lists of MaxSize elements
InitList ==
  /\ CoordIdle /\ CostIdle /\ UpdateIdle
  /\ a = <<>> /\ b = <<>> /\ other_list = <<>> /\ v = <<>> /\ sum = <<>>
  /\ pc = "pl" /\ pl = <<>> /\ factor = IntFactor(0) /\ out = Returned(<<>>)
  /\ recorded = <<>> /\ operand = NoneObj

NextList ==
  \/ \E p, q \in 0..(MaxSize - 1) : PlAdd(p, q)
  \/ \E f \in Factors : PlMul(f)

SpecList == InitList /\ [][NextList]_vars

\* ================================================================ claims
Contents(ref) == IF ref = None THEN <<>> ELSE heap[ref]
IsNotify == lastOp' = "notify" /\ total' = total + 1
IsGet == lastOp' = "get" /\ total' = total

\* C1: counted from the start of the run (a round start), the cursor is
\* the number of notify_evaluation calls made in the current round and
\* advance_generation has run once per completed round: after exactly
\* num_particles calls the cursor is 0 again and one advance has run,
\* after fewer the cursor is the number of calls and none has run.
C1_RoundCycling ==
  /\ i = total % NumParticles
  /\ gen = total \div NumParticles
C1_Witness ==
  /\ NumParticles = 2 /\ total = NumParticles /\ i = 0 /\ gen = 1
  /\ lastOp = "notify"

C4_PositionsArePermutations ==
  /\ \A k \in Indices : IsPermutation(heap[particles[k].x], n)
  /\ ret # None => IsPermutation(heap[ret], n)
C4_Witness ==
  /\ gen >= 1 /\ n >= 2 /\ NumParticles = 2 /\ lastOp = "get"
  /\ ret = particles[i].x /\ ret > NumParticles

\* C5: b + (a - b) is a, whatever indices the difference drew.
C5_ApplyDifference == pc = "added" => sum = a
C5_Witness == pc = "added" /\ Len(v) >= 2 /\ sum = a /\ a # b

\* C6: get_position_to_evaluate leaves the cursor, the particles and the
\* iteration and global bests as they are and returns the position of
\* particle i; called again with no notify_evaluation in between it
\* returns the same position.
C6_GetIsPure ==
  [][IsGet => /\ UNCHANGED coord
              /\ ret' = particles[i].x
              /\ lastOp = "get" => ret' = ret /\ Contents(ret)' = Contents(ret)
    ]_vars
C6_Witness ==
  /\ lastOp = "get" /\ total >= 1 /\ i = 1 /\ ret = particles[i].x

\* C7: best_iteration_value is the minimum of the values reported within
\* the current round only: +infinity after the call that completes a round.
C7_IterationBestPerRound == best_iteration_value = roundMin

\* C8: a generation advance gives the particle the velocity
\* w * v + phip * rp * (best - x) + phig * rg * (best_global - x), for the
\* rp, rg drawn for it, and the position x + v with that velocity (stated
\* for the particle the loop visits last, whose draws rp, rg are).
C8_AdvanceIsWeightedUpdate ==
  [][gen' = gen + 1 =>
      LET k == NumParticles - 1
          x == heap[particles[k].x]
          best == heap'[particles'[k].best]
          bg == heap'[best_global']
      IN \E d1 \in Diffs(best, x), d2 \in Diffs(bg, x) :
           LET nv == RMul(particles[k].v, FloatFactor(inertia_weight)).val
                     \o RMul(d1, FloatFactor(Times(cognitive_parameter, rp'))).val
                     \o RMul(d2, FloatFactor(Times(social_parameter, rg'))).val
           IN /\ particles'[k].v = nv
              /\ heap'[particles'[k].x] = Apply(x, nv)
    ]_vars

\* C9: an integer factor k with 0 <= k <= len(d) gives the first k
\* transpositions of d, in d's order, and leaves d as it was.
C9_IntegerScaleIsPrefix ==
  [][(pc' = "scaled" /\ factor'.type = "int"
      /\ 0 <= factor'.val /\ factor'.val <= Len(pl))
     => /\ pl' = pl
        /\ out'.err = ""
        /\ Len(out'.val) = factor'.val
        /\ \A k \in 1..factor'.val : out'.val[k] = pl[k]
    ]_vars
C9_Witness ==
  /\ pc = "scaled" /\ factor = IntFactor(1) /\ Len(pl) = 2
  /\ out = Returned(<<pl[1]>>)

\* C10: a float factor r raises ValueError exactly when r < 0 or r > 1,
\* and then d is as it was; 0.0 gives the empty delta, 1.0 all of d in
\* order.
C10_FloatScale ==
  [][(pc' = "scaled" /\ factor'.type = "float")
     => /\ out'.err = "ValueError" <=> (factor'.val < 0 \/ factor'.val > Unit)
        /\ out'.err \in {"", "ValueError"}
        /\ pl' = pl
        /\ factor'.val = 0 => out' = Returned(<<>>)
        /\ factor'.val = Unit => out' = Returned(pl)
    ]_vars
C10_Witness ==
  /\ pc = "scaled" /\ factor = FloatFactor(Unit + Unit \div 2)
  /\ out = Raised("ValueError") /\ Len(pl) = 2

\* C11: adding anything that is not a PermutationList to a Sequence
\* raises TypeError, gives no new Sequence and leaves the Sequence it was
\* added to as it was.
C11_AddRejectsOtherTypes ==
  [][pc' = "refused" =>
       /\ operand'.type # "PermutationList"
       /\ out' = Raised("TypeError")
       /\ sum' = sum /\ sum' = <<>>
       /\ b' = b
    ]_vars
C11_Witness ==
  /\ pc = "refused" /\ operand.type = "list" /\ Len(operand.keys) >= 1
  /\ out = Raised("TypeError") /\ sum = <<>>

\* C13: the loop of a - b ends: every swap raises the number of places
\* where the working copy agrees with a and breaks no agreeing place, and
\* as long as a place disagrees some disagreeing index i has its value
\* a[i] at a j > i of the working copy.
Matches(l1, l2) == Cardinality({k \in 1..Len(l1) : l1[k] = l2[k]})
C13_DifferenceTerminates ==
  /\ [][(pc = "sub" /\ other_list' # other_list) =>
          /\ Matches(a, other_list') > Matches(a, other_list)
          /\ \A k \in 1..Len(a) : a[k] = other_list[k] => a[k] = other_list'[k]
       ]_vars
  /\ []((pc = "sub" /\ a # other_list) =>
          \E idx \in 0..(Len(a) - 1) :
            /\ a[idx + 1] # other_list[idx + 1]
            /\ \E j \in (idx + 1)..(Len(a) - 1) : other_list[j + 1] = a[idx + 1])
  /\ (pc = "sub") ~> (pc = "diffed")
C13_Witness ==
  /\ pc = "sub" /\ Len(recorded) = 1 /\ a # other_list /\ Len(a) = 3
  /\ Matches(a, other_list) = 1

\* C14: b + v is b with v's transpositions done in v's order, on a copy:
\* b and v are as they were; a - b leaves a and b as they were.
RECURSIVE SwapsInOrder(_, _, _)
SwapsInOrder(list, keys, k) ==
  IF k = 0 THEN list
  ELSE LET before == SwapsInOrder(list, keys, k - 1)
       IN [j \in 1..Len(list) |->
             IF j = keys[k][1] + 1 THEN before[keys[k][2] + 1]
             ELSE IF j = keys[k][2] + 1 THEN before[keys[k][1] + 1]
             ELSE before[j]]
C14_ApplyAndDifferenceCopy ==
  [][/\ (pc = "diffed" /\ pc' = "added") =>
          /\ sum' = SwapsInOrder(b, v, Len(v))
          /\ b' = b /\ v' = v /\ a' = a
     /\ pc' \in {"sub", "diffed"} => a' = a /\ b' = b
    ]_vars
C14_Witness ==
  /\ pc = "added" /\ Len(v) = 2 /\ sum # b /\ other_list # b
  /\ sum = SwapsInOrder(b, v, 2)

\* C20: every (i, j) that a - b passes to add has 0 <= i < j < n, no i
\* comes twice, so the PermutationList holds every pair passed to it, in
\* order; there are at most n - 1 pairs, and none when a = b.
C20_RecordedTranspositions ==
  pc \in {"sub", "diffed", "added", "refused"} =>
    /\ \A k \in 1..Len(recorded) :
         0 <= recorded[k][1] /\ recorded[k][1] < recorded[k][2]
         /\ recorded[k][2] < Len(a)
    /\ \A k, l \in 1..Len(recorded) : k # l => recorded[k][1] # recorded[l][1]
    /\ v = recorded
    /\ Len(recorded) <= Len(a) - 1
    /\ a = b => recorded = <<>>
C20_Witness ==
  /\ pc = "diffed" /\ Len(a) = 3 /\ Len(recorded) = 2
  /\ recorded[2][1] < recorded[1][1]

\* C12 as stated: the cost of [1,2,3,4] is 3 and the cost of [2,4,1,3] is 0.
C12_ReferenceCostsAsStated ==
  pc = "cost" =>
    /\ board = <<1, 2, 3, 4>> => num_invalid_restrictions = 3
    /\ board = <<2, 4, 1, 3>> => num_invalid_restrictions = 0
\* C12 as amended: the cost is the number of unordered pairs of places
\* i # j with |Q_i - Q_j| = |i - j|; it is 6 for [1,2,3,4] and 0 for
\* [2,4,1,3].
C12_ReferenceCosts ==
  pc = "cost" =>
    /\ board = <<1, 2, 3, 4>> => num_invalid_restrictions = 6
    /\ board = <<2, 4, 1, 3>> => num_invalid_restrictions = 0
    /\ num_invalid_restrictions =
         Cardinality({pq \in (1..Len(board)) \X (1..Len(board)) :
                        /\ pq[1] < pq[2]
                        /\ \/ board[pq[2]] - board[pq[1]] = pq[2] - pq[1]
                           \/ board[pq[1]] - board[pq[2]] = pq[2] - pq[1]})
C12_Witness ==
  pc = "cost" /\ board = <<1, 2, 3, 4>> /\ num_invalid_restrictions = 6

C16_BestsAreSnapshots ==
  /\ \A k \in Indices :
       particles[k].best_value < Inf => heap[particles[k].best] = bestAt[k]
  /\ best_iteration_value < Inf =>
       best_iteration # None /\ heap[best_iteration] = iterAt
  /\ best_global_value < Inf =>
       best_global # None /\ heap[best_global] = globalAt
C16_Witness ==
  /\ gen = 2 /\ NumParticles = 2
  /\ particles[0].best_value < Inf /\ particles[0].best # particles[0].x
  /\ heap[particles[0].best] = bestAt[0]
  /\ best_global # None /\ \A k \in Indices : best_global # particles[k].x
  /\ heap[best_global] = globalAt /\ heap[best_iteration] = iterAt

\* C17: the k-th notify_evaluation call (from 0) is recorded against
\* particle k mod num_particles, the one whose position
\* get_position_to_evaluate returned just before; it may change the best
\* and best_value of that particle and of no other.
C17_RecordedAgainstCursorParticle ==
  [][IsNotify =>
       LET k == total % NumParticles
       IN /\ i = k /\ lastI' = k
          /\ evaluated' = particles[k].x
          /\ lastOp = "get" => ret = particles[k].x
          /\ particles'[k].best_value = Min(particles[k].best_value, value')
          /\ value' < particles[k].best_value
               => particles'[k].best = particles[k].x
          /\ \A j \in Indices \ {k} :
               /\ particles'[j].best = particles[j].best
               /\ particles'[j].best_value = particles[j].best_value
    ]_vars
C17_Witness ==
  /\ lastOp = "notify" /\ total = 4 /\ lastI = 1 /\ NumParticles = 2
  /\ particles[1].best_value = value /\ particles[1].best = evaluated
  /\ particles[0].best_value > value

\* C19: every particle's velocity is the empty PermutationList in every
\* reachable state, and its position holds what it held at construction;
\* the positions reported are positions of the construction.
C19_SwarmNeverMoves ==
  /\ vtype = "PermutationList"
  /\ \A k \in Indices :
       /\ particles[k].v = <<>>
       /\ heap[particles[k].x] = heap[k + 1]
  /\ \A r \in reported : \E k \in Indices : r[1] = heap[k + 1]
C19_Witness ==
  /\ gen = 2 /\ lastOp = "get" /\ NumParticles = 2 /\ heap[1] # heap[2]
  /\ particles[0].x # 1 /\ heap[particles[0].x] = heap[1]
  /\ particles[1].x # 2 /\ heap[particles[1].x] = heap[2]

\* C18: a call of Particle.update that raises an error leaves the
\* particle's position x and velocity v exactly what they were before the
\* call.
C18_FailedUpdateLeavesParticle ==
  [][raised' # "" /\ args' # NoArgs =>
       /\ particles'[0].x = particles[0].x
       /\ heap'[particles'[0].x] = heap[particles[0].x]
       /\ particles'[0].v = particles[0].v
    ]_vars

====
